---- MODULE Spec2Model ----
(***************************************************************************)
(* Zone orchestration (cuprated p2p.rs), the inbound-transaction-handler   *)
(* promise of each zone, and the stub I2P transport.                       *)
(***************************************************************************)
EXTENDS Integers, Sequences, FiniteSets, TLC

\* ------------------------------------------------------------------ bounds
\* handshake tasks per zone that hold a clone of the shared future
MaxWaiters == 2
\* distinct IncomingTxHandler values the caller may send
NumValues == 2
\* distinct NetworkInterface values initialize_network may produce
NumIfaces == 2

Zones == {"clearnet", "i2p"}
Waiters == 1..MaxWaiters
Values == 1..NumValues
Ifaces == 1..NumIfaces

\* Option<T>
None == [some |-> FALSE]
Some(x) == [some |-> TRUE, val |-> x]

\* Result<NetworkInterface<N>, BoxError> of cuprate_p2p::initialize_network
NetOk(z, id) == [ok |-> TRUE, zone |-> z, id |-> id]
NetErr(z) == [ok |-> FALSE, zone |-> z, id |-> 0]
\* (the interface ids range over Ifaces for clearnet; one id stands for I2P's)
NetResults(z) ==
    {NetOk(z, id) : id \in IF z = "clearnet" THEN Ifaces ELSE {1}} \cup {NetErr(z)}

\* NetworkInterface<N>
NetworkInterface(r) == [zone |-> r.zone, id |-> r.id]

VARIABLES
    pc,                     \* position of initialize_zones_p2p
    enable,                 \* config.p2p.i2p.enable
    outcome,                \* per zone: what start_zone_p2p has done so far
    clearnet,               \* local `clearnet` (line 64)
    i2p_interface,          \* local `i2p_interface` (line 76)
    tx_handler_subscribers, \* local Vec<Sender<IncomingTxHandler>> (line 75)
    returned,               \* the returned (NetworkInterfaces, Vec<Sender>)
    chan,                   \* per zone: the oneshot channel of start_zone_p2p
    waiter,                 \* per zone, per handshake task: its view of the shared future
    connect_call,           \* last I2pTransport::connect_to_peer call
    listen_call,            \* last I2pTransport::incoming_connection_listener call
    garlic_addr,            \* a GarlicAddr value (mutated in place by set_port)
    addr_call               \* last operation on GarlicAddr / peer ids, with its result

orch_vars == <<pc, enable, outcome, clearnet, i2p_interface, tx_handler_subscribers, returned>>
promise_vars == <<chan, waiter>>
transport_vars == <<connect_call, listen_call>>
addr_vars == <<garlic_addr, addr_call>>
vars == <<pc, enable, outcome, clearnet, i2p_interface, tx_handler_subscribers,
          returned, chan, waiter, connect_call, listen_call, garlic_addr, addr_call>>

\* ------------------------------------------------------- oneshot + Shared
\* oneshot::channel(): sender alive, no value
oneshot_channel == [created |-> TRUE, tx |-> "held", value |-> 0]
NoChannel == [created |-> FALSE, tx |-> "none", value |-> 0]

\* the Sender going out of scope unsent
DropSender(c) == [c EXCEPT !.tx = "dropped"]

\* Sender::send(self, v): consumes the sender, stores the value
Sender_send(c, v) == [c EXCEPT !.tx = "sent", !.value = v]

Receiver_try_recv(c) ==
    IF c.tx = "sent" THEN [st |-> "ok", val |-> c.value]
    ELSE [st |-> "err", val |-> 0]

\* polling a clone of Shared<oneshot::Receiver<IncomingTxHandler>>:
\* Pending while the sender is alive and unsent, Ready(Ok(v)) once sent,
\* Ready(Err(RecvError)) once the sender was dropped unsent
Receiver_poll(c) ==
    IF c.tx = "sent" THEN [st |-> "ok", val |-> c.value]
    ELSE IF c.tx = "dropped" THEN [st |-> "err", val |-> 0]
    ELSE [st |-> "waiting", val |-> 0]

incoming_tx_handler_fut_shared_channel(z) == "clearnet"

\* the channel whose receiver zone z's request handler maker holds (line 133)
incoming_tx_handler_fut(z) == z

\* ------------------------------------------------------------ GarlicAddr
\* number of sample destinations beyond the all-zero one
MaxDest == 3
\* [u8; 32]
DestLen == 32
\* sample destinations: 0 is all-zero, 3 is all-0xFF, the others vary by index
Dest(k) == [i \in 1..DestLen |-> IF k % 3 = 0 THEN (k * 85) % 256 ELSE (k * i) % 256]
Dests == {Dest(k) : k \in 0..MaxDest}
\* sample u16 ports
Ports == {0, 1, 18080, 65535}

\* GarlicAddr::new
GarlicAddr_new(destination, port) == [destination |-> destination, port |-> port]
GarlicAddrs == {GarlicAddr_new(d, p) : d \in Dests, p \in Ports}

\* ------------------------------------------------- strings, as byte codes
\* ':' '.' '=' '+' '-' '0'
Colon == 58
Dot == 46
Pad == 61
Plus == 43
Minus == 45
Zero == 48

RECURSIVE Decimal(_)
\* Display for u16: decimal digits, no sign, no leading zeros
Decimal(n) == IF n < 10 THEN <<Zero + n>> ELSE Append(Decimal(n \div 10), Zero + (n % 10))

\* the standard base64 alphabet
B64Char(i) ==
    IF i < 26 THEN 65 + i
    ELSE IF i < 52 THEN 97 + (i - 26)
    ELSE IF i < 62 THEN Zero + (i - 52)
    ELSE IF i = 62 THEN Plus ELSE 47

RECURSIVE base64_encode(_)
\* base64::encode: standard alphabet, padded
base64_encode(b) ==
    IF Len(b) = 0 THEN <<>>
    ELSE IF Len(b) = 1 THEN
        << B64Char(b[1] \div 4), B64Char((b[1] % 4) * 16), Pad, Pad >>
    ELSE IF Len(b) = 2 THEN
        << B64Char(b[1] \div 4), B64Char((b[1] % 4) * 16 + (b[2] \div 16)),
           B64Char((b[2] % 16) * 4), Pad >>
    ELSE
        << B64Char(b[1] \div 4), B64Char((b[1] % 4) * 16 + (b[2] \div 16)),
           B64Char((b[2] % 16) * 4 + (b[3] \div 64)), B64Char(b[3] % 64) >>
        \o base64_encode(SubSeq(b, 4, Len(b)))

\* ------------------------- std::collections::hash_map::DefaultHasher
\* (SipHash-1-3 with zero keys; a 64-bit word is four 16-bit limbs, lowest first)
Word(l0, l1, l2, l3) == <<l0, l1, l2, l3>>

WAdd(a, b) ==
    LET s0 == a[1] + b[1]
        s1 == a[2] + b[2] + (s0 \div 65536)
        s2 == a[3] + b[3] + (s1 \div 65536)
        s3 == a[4] + b[4] + (s2 \div 65536)
    IN <<s0 % 65536, s1 % 65536, s2 % 65536, s3 % 65536>>

RECURSIVE XorBits(_, _, _)
XorBits(a, b, n) ==
    IF n = 0 THEN 0
    ELSE ((a + b) % 2) + (2 * XorBits(a \div 2, b \div 2, n - 1))

WXor(a, b) == [i \in 1..4 |-> XorBits(a[i], b[i], 16)]

RECURSIVE Pow2(_)
Pow2(n) == IF n = 0 THEN 1 ELSE 2 * Pow2(n - 1)

\* rotate left by n = 16 q + r bits
WRotl(w, n) ==
    LET q == n \div 16
        r == n % 16
        m == [j \in 1..4 |-> w[(((j - 1 - q) + 4) % 4) + 1]]
    IN IF r = 0 THEN m
       ELSE [j \in 1..4 |->
                ((m[j] * Pow2(r)) % 65536) + (m[((j + 2) % 4) + 1] \div Pow2(16 - r))]

SipRound(v) ==
    LET a0 == WAdd(v[1], v[2])
        a1 == WXor(WRotl(v[2], 13), a0)
        a0r == WRotl(a0, 32)
        a2 == WAdd(v[3], v[4])
        a3 == WXor(WRotl(v[4], 16), a2)
        b0 == WAdd(a0r, a3)
        b3 == WXor(WRotl(a3, 21), b0)
        b2 == WAdd(a2, a1)
        b1 == WXor(WRotl(a1, 17), b2)
    IN <<b0, b1, WRotl(b2, 32), b3>>

\* one message word: v3 ^= m; one round; v0 ^= m
SipCompress(v, m) ==
    LET r == SipRound(<<v[1], v[2], v[3], WXor(v[4], m)>>)
    IN <<WXor(r[1], m), r[2], r[3], r[4]>>

\* the 8 bytes b (zero-padded) as a little-endian word
WordOfBytes(b) ==
    LET at(i) == IF i <= Len(b) THEN b[i] ELSE 0
    IN [k \in 1..4 |-> at((2 * k) - 1) + (256 * at(2 * k))]

BytesOfWord(w) == [i \in 1..8 |-> IF i % 2 = 1 THEN w[(i + 1) \div 2] % 256
                                               ELSE w[i \div 2] \div 256]

SipInit ==
    << Word(25973, 28787, 28005, 29551), Word(28525, 28260, 29281, 25711),
       Word(29281, 28261, 26469, 27769), Word(25971, 31092, 25698, 29797) >>

RECURSIVE SipBlocks(_, _)
SipBlocks(v, b) ==
    IF Len(b) < 8 THEN v
    ELSE SipBlocks(SipCompress(v, WordOfBytes(SubSeq(b, 1, 8))), SubSeq(b, 9, Len(b)))

\* DefaultHasher::new(): no bytes written yet
DefaultHasher_new == [written |-> <<>>]

\* Hasher::write
Hasher_write(h, bytes) == [written |-> h.written \o bytes]

\* <str as Hash>::hash: the bytes of the string, then 0xFF
str_hash(str, h) == Hasher_write(Hasher_write(h, str), <<255>>)

\* Hasher::finish, as the little-endian bytes of the u64
Hasher_finish_le(h) ==
    LET b == h.written
        n == Len(b)
        v == SipBlocks(SipInit, b)
        t == WordOfBytes(SubSeq(b, (n - (n % 8)) + 1, n))
        last == [t EXCEPT ![4] = (t[4] % 256) + (256 * (n % 256))]
        c == SipCompress(v, last)
        f == SipRound(SipRound(SipRound(<<c[1], c[2], WXor(c[3], Word(255, 0, 0, 0)), c[4]>>)))
    IN BytesOfWord(WXor(WXor(f[1], f[2]), WXor(f[3], f[4])))

\* ------------------------------------------- NetZoneAddress for GarlicAddr
\* GarlicAddr::destination
destination(a) == a.destination
\* GarlicAddr::port
port(a) == a.port

set_port_rebuild(a, p) == GarlicAddr_new([i \in 1..DestLen |-> 0], p)

\* NetZoneAddress::set_port: self.port = port
set_port(a, p) == [a EXCEPT !.port = p]

ban_id_with_port(a) == [destination(a) EXCEPT ![DestLen] = port(a) % 256]

\* NetZoneAddress::ban_id: self.destination()
ban_id(a) == destination(a)

make_canonical_zero_port(a) == [a EXCEPT !.port = 0]

\* NetZoneAddress::make_canonical: empty body
make_canonical(a) == a

\* --------------------------------------------- Display / FromStr
\* impl Display for GarlicAddr: base64 of the first 8 bytes, "...", base64 of
\* the last 8 bytes, ':', the port
Display(a) ==
    base64_encode(SubSeq(a.destination, 1, 8)) \o <<Dot, Dot, Dot>>
        \o base64_encode(SubSeq(a.destination, 25, DestLen))
        \o <<Colon>> \o Decimal(a.port)

\* Result<GarlicAddr, std::io::Error>
IoErr(kind, msg) == [ok |-> FALSE, kind |-> kind, msg |-> msg, value |-> None]
IoOk(a) == [ok |-> TRUE, kind |-> "none", msg |-> "", value |-> Some(a)]

RECURSIVE ParseDigits(_, _)
\* the digit loop of u16::from_str: any non-digit or a value above u16::MAX fails
ParseDigits(d, acc) ==
    IF Len(d) = 0 THEN [ok |-> TRUE, value |-> acc]
    ELSE IF d[1] < Zero \/ d[1] > Zero + 9 THEN [ok |-> FALSE, value |-> 0]
    ELSE IF acc * 10 + (d[1] - Zero) > 65535 THEN [ok |-> FALSE, value |-> 0]
    ELSE ParseDigits(Tail(d), acc * 10 + (d[1] - Zero))

\* str::parse::<u16>: empty fails, a lone sign fails, a leading '+' is skipped
\* (a '-' is not, so it fails as a digit)
parse_u16(t) ==
    IF Len(t) = 0 THEN [ok |-> FALSE, value |-> 0]
    ELSE IF t[1] \in {Plus, Minus} /\ Len(t) = 1 THEN [ok |-> FALSE, value |-> 0]
    ELSE ParseDigits(IF t[1] = Plus THEN Tail(t) ELSE t, 0)

splitn2(str) ==
    IF \A i \in DOMAIN str : str[i] # Colon THEN <<str>>
    ELSE LET k == CHOOSE i \in DOMAIN str :
                      str[i] = Colon /\ \A j \in DOMAIN str : j < i => str[j] # Colon
         IN <<SubSeq(str, k + 1, Len(str)), SubSeq(str, 1, k - 1)>>

\* s.rsplitn(2, ':').collect(): the text after the last ':' first, then the
\* text before it; the whole string alone when there is no ':'
rsplitn2(str) ==
    IF \A i \in DOMAIN str : str[i] # Colon THEN <<str>>
    ELSE LET k == CHOOSE i \in DOMAIN str :
                      str[i] = Colon /\ \A j \in DOMAIN str : j > i => str[j] # Colon
         IN <<SubSeq(str, k + 1, Len(str)), SubSeq(str, 1, k - 1)>>

\* impl FromStr for GarlicAddr. dest_str is hashed into `hash.clone()`, a
\* temporary that is dropped; `hash` itself has had nothing written to it when
\* finish() is called on it
from_str(str) ==
    LET parts == rsplitn2(str) IN
    IF Len(parts) # 2 THEN IoErr("InvalidInput", "Invalid garlic address format")
    ELSE
        LET parsed == parse_u16(parts[1])
            dest_str == parts[2]
            hash == DefaultHasher_new
            hash_val == Hasher_finish_le(hash)
        IN IF ~parsed.ok THEN IoErr("InvalidInput", "Invalid port")
           ELSE IoOk(GarlicAddr_new(
                    [i \in 1..DestLen |-> IF i <= 8 THEN hash_val[i] ELSE 0],
                    parsed.value))

\* longest input string built from the sample alphabet
MaxStrLen == 3
\* ':' '7' '+' 'x'
Alphabet == {Colon, Zero + 7, Plus, 120}
\* "x:65535" "x:65536" "x:0" "x:007" "x:-0" "x:x:7" "x:+65535" "x: 7"
SpecialInputs ==
    { <<120, 58, 54, 53, 53, 51, 53>>, <<120, 58, 54, 53, 53, 51, 54>>,
      <<120, 58, 48>>, <<120, 58, 48, 48, 55>>, <<120, 58, 45, 48>>,
      <<120, 58, 120, 58, 55>>, <<120, 58, 43, 54, 53, 53, 51, 53>>,
      <<120, 58, 32, 55>> }
InputStrings ==
    UNION {[1..k -> Alphabet] : k \in 0..MaxStrLen} \cup SpecialInputs

\* --------------------------------------------- epee object for GarlicAddr
\* Result<T> of cuprate_epee_encoding
EpeeErr_Format == [ok |-> FALSE, err |-> "Format", value |-> None]
EpeeOk(v) == [ok |-> TRUE, err |-> "none", value |-> Some(v)]

\* EpeeObjectBuilder<GarlicAddr> for (): add_field
add_field(builder, name, t) == EpeeErr_Format

finish_default(builder) == EpeeOk(GarlicAddr_new([i \in 1..DestLen |-> 0], 0))

\* EpeeObjectBuilder<GarlicAddr> for (): finish
finish(builder) == EpeeErr_Format

\* EpeeObject::number_of_fields
number_of_fields(a) == 2

\* a field value: a byte vector or a 16-bit unsigned
BytesValue(b) == [bytes |-> b, num |-> 0]
U16Value(n) == [bytes |-> <<>>, num |-> n]

write_fields_port_first(a) ==
    << [name |-> "port", ty |-> "u16", value |-> U16Value(a.port)],
       [name |-> "destination", ty |-> "bytes", value |-> BytesValue(a.destination)] >>

\* EpeeObject::write_fields: the fields written, in order
write_fields(a) ==
    << [name |-> "destination", ty |-> "bytes", value |-> BytesValue(a.destination)],
       [name |-> "port", ty |-> "u16", value |-> U16Value(a.port)] >>

\* field lists handed to the builder: the encoding of a, and payloads with
\* missing, extra, reordered and mistyped fields
FieldLists(a) ==
    LET w == write_fields(a) IN
    { w, <<>>, <<w[1]>>, <<w[2]>>, <<w[2], w[1]>>,
      Append(w, [name |-> "extra", ty |-> "u16", value |-> U16Value(0)]),
      << w[1], [name |-> "port", ty |-> "bytes", value |-> BytesValue(a.destination)] >> }

\* --------------------------------------------- CrossNetworkInternalPeerId
PeerZones == {"clearnet", "tor", "i2p"}

\* sample InternalPeerID<Addr> values of one zone: a known address of the
\* zone's address type, or an unknown peer's number (the same numbers occur
\* in every zone)
InternalPeerIDs(z) ==
    {[kind |-> "Unknown", n |-> n, addr |-> None] : n \in 0..1} \cup
    {[kind |-> "KnownAddr", n |-> 0, addr |-> Some(a)] :
        a \in IF z = "i2p" THEN {GarlicAddr_new(Dest(0), 0), GarlicAddr_new(Dest(1), 1)}
              ELSE IF z = "tor" THEN {[domain |-> "onion", port |-> 0], [domain |-> "onion", port |-> 1]}
              ELSE {[ip |-> "127.0.0.1", port |-> 0], [ip |-> "127.0.0.1", port |-> 1]}}

CrossNetworkInternalPeerId_from_pasted(z, id) ==
    IF z = "i2p" THEN [variant |-> "I2p", id |-> id]
    ELSE [variant |-> "ClearNet", id |-> id]

\* the three From<InternalPeerID<_>> impls
CrossNetworkInternalPeerId_from(z, id) ==
    IF z = "clearnet" THEN [variant |-> "ClearNet", id |-> id]
    ELSE IF z = "tor" THEN [variant |-> "Tor", id |-> id]
    ELSE [variant |-> "I2p", id |-> id]

\* ---------------------------------------------------------- I2pTransport
I2pClientConfigs ==
    {[router_address |-> ra, connect_timeout |-> 0, lease_duration |-> 0] :
        ra \in {"", "127.0.0.1:7656"}}

\* I2pServerConfig::default() with any destination
I2pServerConfigs ==
    {[destination |-> d, private_key |-> None, tunnel_count |-> 3, tunnel_length |-> 3] :
        d \in {None} \cup {Some(a) : a \in GarlicAddrs}}

\* what polling the future of a transport operation yields
Ready_Err(kind) == [poll |-> "Ready", ok |-> FALSE, kind |-> kind, payload |-> "none"]
Ready_Ok(payload) == [poll |-> "Ready", ok |-> TRUE, kind |-> "none", payload |-> payload]

\* I2pTransport::connect_to_peer: logs, then returns the stub error
connect_to_peer(addr, config) == Ready_Err("NotConnected")

incoming_connection_listener_reuse(config) ==
    IF config.destination.some THEN Ready_Ok("I2pListener") ELSE Ready_Err("NotConnected")

\* I2pTransport::incoming_connection_listener: logs whether a destination is
\* configured, then returns the stub error on both branches
incoming_connection_listener(config) == Ready_Err("NotConnected")

\* progress of start_zone_p2p for one zone, with the id of the interface
\* initialize_network produced (0 when there is none)
NotStarted == [st |-> "notstarted", id |-> 0]
Starting == [st |-> "starting", id |-> 0]
Finished(r) == [st |-> IF r.ok THEN "ok" ELSE "err", id |-> r.id]

IdleWaiter == [st |-> "idle", val |-> 0, early |-> FALSE]

Init ==
    /\ pc = "entry"
    /\ enable \in BOOLEAN
    /\ outcome = [z \in Zones |-> NotStarted]
    /\ clearnet = None
    /\ i2p_interface = None
    /\ tx_handler_subscribers = <<>>
    /\ returned = None
    /\ chan = [z \in Zones |-> NoChannel]
    /\ waiter = [z \in Zones |-> [w \in Waiters |-> IdleWaiter]]
    /\ connect_call = None
    /\ listen_call = None
    /\ garlic_addr = GarlicAddr_new(Dest(0), 0)
    /\ addr_call = None

\* ------------------------------------------------------ start_zone_p2p
\* lines 126-143: create the channel, build the request handler maker and
\* suspend on initialize_network
start_zone_p2p_begin(z) ==
    /\ chan' = [chan EXCEPT ![z] = oneshot_channel]
    /\ outcome' = [outcome EXCEPT ![z] = Starting]

\* lines 136-146 once initialize_network has completed with r: `?` returns the
\* error and drops the sender, otherwise the sender is handed to the caller
start_zone_p2p_chan(c, r) == IF r.ok THEN c ELSE DropSender(c)

\* ------------------------------------------------- initialize_zones_p2p
\* NetworkInterfaces::new
NetworkInterfaces_new(clearnet_network_interface, i2p_network_interface) ==
    [clearnet_network_interface |-> clearnet_network_interface,
     i2p_network_interface |-> i2p_network_interface]

\* lines 105-106
ReturnValue(c, i, subs) ==
    Some([network_interfaces |-> NetworkInterfaces_new(c, i), resolvers |-> subs])

i2p_match_unwrap(r, subs) ==
    IF r.ok
    THEN [panic |-> FALSE, i2p |-> Some(NetworkInterface(r)), subs |-> Append(subs, r.zone)]
    ELSE [panic |-> TRUE, i2p |-> None, subs |-> subs]

i2p_match_no_push(r, subs) ==
    IF r.ok
    THEN [panic |-> FALSE, i2p |-> Some(NetworkInterface(r)), subs |-> subs]
    ELSE [panic |-> FALSE, i2p |-> None, subs |-> subs]

i2p_match_replace(r, subs) ==
    IF r.ok
    THEN [panic |-> FALSE, i2p |-> Some(NetworkInterface(r)), subs |-> <<r.zone>>]
    ELSE [panic |-> FALSE, i2p |-> None, subs |-> subs]

\* the match of lines 87-98 on the result of start_zone_p2p::<I2p, I2pTransport>
i2p_match(r, subs) ==
    IF r.ok
    THEN [panic |-> FALSE, i2p |-> Some(NetworkInterface(r)), subs |-> Append(subs, r.zone)]
    ELSE [panic |-> FALSE, i2p |-> None, subs |-> subs]

BeginConcurrent ==
    /\ pc = "entry"
    /\ pc' = "clearnet_await"
    /\ chan' = [z \in Zones |-> IF z = "clearnet" \/ enable THEN oneshot_channel ELSE chan[z]]
    /\ outcome' = [z \in Zones |-> IF z = "clearnet" \/ enable THEN Starting ELSE outcome[z]]
    /\ UNCHANGED <<enable, clearnet, i2p_interface, tx_handler_subscribers, returned,
                   waiter, transport_vars, addr_vars>>

\* lines 64-71: call start_zone_p2p::<ClearNet, Tcp> and suspend on it
Begin ==
    /\ pc = "entry"
    /\ pc' = "clearnet_await"
    /\ start_zone_p2p_begin("clearnet")
    /\ UNCHANGED <<enable, clearnet, i2p_interface, tx_handler_subscribers, returned,
                   waiter, transport_vars, addr_vars>>

ClearnetErrSwallowed ==
    /\ pc = "clearnet_await"
    /\ pc' = "returned"
    /\ chan' = [chan EXCEPT !["clearnet"] = start_zone_p2p_chan(@, NetErr("clearnet"))]
    /\ outcome' = [outcome EXCEPT !["clearnet"] = Finished(NetErr("clearnet"))]
    /\ returned' = ReturnValue(None, None, <<>>)
    /\ UNCHANGED <<enable, clearnet, i2p_interface, tx_handler_subscribers,
                   waiter, transport_vars, addr_vars>>

\* lines 71-72: clearnet's start_zone_p2p returned Err, `.unwrap()` panics
ClearnetErr ==
    /\ pc = "clearnet_await"
    /\ pc' = "panicked"
    /\ chan' = [chan EXCEPT !["clearnet"] = start_zone_p2p_chan(@, NetErr("clearnet"))]
    /\ outcome' = [outcome EXCEPT !["clearnet"] = Finished(NetErr("clearnet"))]
    /\ UNCHANGED <<enable, clearnet, i2p_interface, tx_handler_subscribers, returned,
                   waiter, transport_vars, addr_vars>>

\* lines 71-86 and 99-106: clearnet's start_zone_p2p returned Ok; then either
\* I2P is disabled and the function returns, or start_zone_p2p::<I2p, _> is
\* called and suspended on
ClearnetOk(id) ==
    LET r == NetOk("clearnet", id)
        subs == <<r.zone>>
    IN
    /\ pc = "clearnet_await"
    /\ clearnet' = Some(NetworkInterface(r))
    /\ tx_handler_subscribers' = subs
    /\ IF enable
       THEN /\ pc' = "i2p_await"
            /\ chan' = [chan EXCEPT !["clearnet"] = start_zone_p2p_chan(@, r),
                                    !["i2p"] = oneshot_channel]
            /\ outcome' = [outcome EXCEPT !["clearnet"] = Finished(r),
                                          !["i2p"] = Starting]
            /\ UNCHANGED <<i2p_interface, returned>>
       ELSE /\ pc' = "returned"
            /\ chan' = [chan EXCEPT !["clearnet"] = start_zone_p2p_chan(@, r)]
            /\ outcome' = [outcome EXCEPT !["clearnet"] = Finished(r)]
            /\ i2p_interface' = None
            /\ returned' = ReturnValue(NetworkInterface(r), None, subs)
    /\ UNCHANGED <<enable, waiter, transport_vars, addr_vars>>

\* lines 86-98 and 105-106: I2P's start_zone_p2p returned r
I2pDone(r) ==
    LET m == i2p_match(r, tx_handler_subscribers) IN
    /\ pc = "i2p_await"
    /\ chan' = [chan EXCEPT !["i2p"] = start_zone_p2p_chan(@, r)]
    /\ outcome' = [outcome EXCEPT !["i2p"] = Finished(r)]
    /\ i2p_interface' = m.i2p
    /\ tx_handler_subscribers' = m.subs
    /\ IF m.panic
       THEN pc' = "panicked" /\ UNCHANGED returned
       ELSE pc' = "returned" /\ returned' = ReturnValue(clearnet.val, m.i2p, m.subs)
    /\ UNCHANGED <<enable, clearnet, waiter, transport_vars, addr_vars>>

\* ------------------------------------------- the caller and the waiters
ResolveAgain(i, v) ==
    /\ pc = "returned"
    /\ i \in DOMAIN returned.val.resolvers
    /\ chan[returned.val.resolvers[i]].tx \in {"held", "sent"}
    /\ chan' = [chan EXCEPT ![returned.val.resolvers[i]] = Sender_send(@, v)]
    /\ UNCHANGED <<orch_vars, waiter, transport_vars, addr_vars>>

\* the caller sends handler v through the i-th returned Sender; send takes
\* the Sender by value, so it is possible only while the Sender is unused
Resolve(i, v) ==
    /\ pc = "returned"
    /\ i \in DOMAIN returned.val.resolvers
    /\ chan[returned.val.resolvers[i]].tx = "held"
    /\ chan' = [chan EXCEPT ![returned.val.resolvers[i]] = Sender_send(@, v)]
    /\ UNCHANGED <<orch_vars, waiter, transport_vars, addr_vars>>

\* the caller drops the i-th returned Sender without sending
DropResolver(i) ==
    /\ pc = "returned"
    /\ i \in DOMAIN returned.val.resolvers
    /\ chan[returned.val.resolvers[i]].tx = "held"
    /\ chan' = [chan EXCEPT ![returned.val.resolvers[i]] = DropSender(@)]
    /\ UNCHANGED <<orch_vars, waiter, transport_vars, addr_vars>>

\* handshake task w of zone z starts to await its clone of the shared future:
\* the first poll either yields the outcome at once or suspends the task
BeginWait(z, w) ==
    LET p == Receiver_poll(chan[incoming_tx_handler_fut(z)]) IN
    /\ chan[incoming_tx_handler_fut(z)].created
    /\ waiter[z][w].st = "idle"
    /\ waiter' = [waiter EXCEPT ![z][w] =
                    [st |-> p.st, val |-> p.val, early |-> p.st = "waiting"]]
    /\ UNCHANGED <<orch_vars, chan, transport_vars, addr_vars>>

\* suspended task w of zone z is woken and polled: its future is ready
Poll(z, w) ==
    LET p == Receiver_poll(chan[incoming_tx_handler_fut(z)]) IN
    /\ waiter[z][w].st = "waiting"
    /\ p.st # "waiting"
    /\ waiter' = [waiter EXCEPT ![z][w] = [st |-> p.st, val |-> p.val, early |-> @.early]]
    /\ UNCHANGED <<orch_vars, chan, transport_vars, addr_vars>>

Next ==
    \/ Begin
    \/ ClearnetErr
    \/ \E id \in Ifaces : ClearnetOk(id)
    \/ \E r \in NetResults("i2p") : I2pDone(r)
    \/ \E i \in 1..Cardinality(Zones), v \in Values : Resolve(i, v)
    \/ \E i \in 1..Cardinality(Zones) : DropResolver(i)
    \/ \E z \in Zones, w \in Waiters : BeginWait(z, w)
    \/ \E z \in Zones, w \in Waiters : Poll(z, w)

Spec == Init /\ [][Next]_vars

\* the runtime keeps polling woken tasks: while some waiter's future is ready,
\* some such waiter is eventually polled
FairSpec == Spec /\ WF_vars(\E z \in Zones, w \in Waiters : Poll(z, w))

\* ------------------------------------------------- transport operations
ConnectToPeer(addr, config) ==
    /\ connect_call' = Some([addr |-> addr, config |-> config,
                             result |-> connect_to_peer(addr, config)])
    /\ UNCHANGED <<orch_vars, promise_vars, listen_call, addr_vars>>

IncomingConnectionListener(config) ==
    /\ listen_call' = Some([config |-> config,
                            result |-> incoming_connection_listener(config)])
    /\ UNCHANGED <<orch_vars, promise_vars, connect_call, addr_vars>>

TransportNext ==
    \/ \E a \in GarlicAddrs, c \in I2pClientConfigs : ConnectToPeer(a, c)
    \/ \E c \in I2pServerConfigs : IncomingConnectionListener(c)

\* the transport operations called for arbitrary addresses and configurations
TransportSpec == Init /\ [][TransportNext]_vars

\* ------------------------------------------- operations on GarlicAddr
\* the record kept of the last operation
Call(op, before, arg, result) ==
    Some([op |-> op, before |-> before, arg |-> arg, result |-> result])

\* the in-place operations may follow one another; each of the other
\* operations is applied to the address as constructed
Fresh == ~addr_call.some
Mutated == IF addr_call.some THEN addr_call.val.op \in {"set_port", "make_canonical"} ELSE TRUE

AddrInit ==
    /\ pc = "entry"
    /\ enable = FALSE
    /\ outcome = [z \in Zones |-> NotStarted]
    /\ clearnet = None
    /\ i2p_interface = None
    /\ tx_handler_subscribers = <<>>
    /\ returned = None
    /\ chan = [z \in Zones |-> NoChannel]
    /\ waiter = [z \in Zones |-> [w \in Waiters |-> IdleWaiter]]
    /\ connect_call = None
    /\ listen_call = None
    /\ garlic_addr \in GarlicAddrs
    /\ addr_call = None

SetPort(p) ==
    /\ Mutated
    /\ garlic_addr' = set_port(garlic_addr, p)
    /\ addr_call' = Call("set_port", garlic_addr, p, 0)
    /\ UNCHANGED <<orch_vars, promise_vars, transport_vars>>

BanId ==
    /\ Mutated
    /\ addr_call' = Call("ban_id", garlic_addr, 0, ban_id(garlic_addr))
    /\ UNCHANGED <<orch_vars, promise_vars, transport_vars, garlic_addr>>

MakeCanonical ==
    /\ Mutated
    /\ garlic_addr' = make_canonical(garlic_addr)
    /\ addr_call' = Call("make_canonical", garlic_addr, 0, 0)
    /\ UNCHANGED <<orch_vars, promise_vars, transport_vars>>

\* garlic_addr is written as an epee object
Encode ==
    /\ Fresh
    /\ addr_call' = Call("encode", garlic_addr, 0,
                         [fields |-> write_fields(garlic_addr),
                          n |-> number_of_fields(garlic_addr)])
    /\ UNCHANGED <<orch_vars, promise_vars, transport_vars, garlic_addr>>

\* the fields of an object are handed to the builder one by one, then the
\* builder is finished
Decode(fields) ==
    /\ Fresh
    /\ addr_call' = Call("decode", garlic_addr, fields,
                         [adds |-> [i \in 1..Len(fields) |->
                                       add_field("unit", fields[i].name, fields[i].value)],
                          finish |-> finish("unit")])
    /\ UNCHANGED <<orch_vars, promise_vars, transport_vars, garlic_addr>>

\* two typed peer ids are wrapped into the union
Wrap(z1, id1, z2, id2) ==
    /\ Fresh
    /\ addr_call' = Call("wrap", garlic_addr,
                         <<[zone |-> z1, id |-> id1], [zone |-> z2, id |-> id2]>>,
                         <<CrossNetworkInternalPeerId_from(z1, id1),
                           CrossNetworkInternalPeerId_from(z2, id2)>>)
    /\ UNCHANGED <<orch_vars, promise_vars, transport_vars, garlic_addr>>

\* a string is parsed as a GarlicAddr
Parse(str) ==
    /\ Fresh
    /\ addr_call' = Call("from_str", garlic_addr, str, from_str(str))
    /\ UNCHANGED <<orch_vars, promise_vars, transport_vars, garlic_addr>>

\* garlic_addr is displayed and the displayed string is parsed
ParseDisplayed ==
    /\ Fresh
    /\ addr_call' = Call("display_parse", garlic_addr, Display(garlic_addr),
                         from_str(Display(garlic_addr)))
    /\ UNCHANGED <<orch_vars, promise_vars, transport_vars, garlic_addr>>

\* from_str applied to the sample strings
ParseNext == \E str \in InputStrings : Parse(str)

ParseSpec == Init /\ [][ParseNext]_vars

AddrNext ==
    \/ ParseDisplayed
    \/ \E p \in Ports : SetPort(p)
    \/ BanId
    \/ MakeCanonical
    \/ Encode
    \/ \E f \in FieldLists(garlic_addr) : Decode(f)
    \/ \E z1, z2 \in PeerZones :
          \E id1 \in InternalPeerIDs(z1), id2 \in InternalPeerIDs(z2) : Wrap(z1, id1, z2, id2)

\* the address operations applied to sample addresses, strings and payloads
AddrSpec == AddrInit /\ [][AddrNext]_vars

TypeOK ==
    /\ pc \in {"entry", "clearnet_await", "i2p_await", "returned", "panicked"}
    /\ enable \in BOOLEAN
    /\ \A z \in Zones : outcome[z].st \in {"notstarted", "starting", "ok", "err"}
    /\ \A z \in Zones : chan[z].tx \in {"none", "held", "sent", "dropped"}
    /\ \A z \in Zones, w \in Waiters : waiter[z][w].st \in {"idle", "waiting", "ok", "err"}

\* ------------------------------------------------------------ properties
Running(z) == outcome[z].st = "ok"
ClearnetInterface == [zone |-> "clearnet", id |-> outcome["clearnet"].id]

\* C1: when clearnet startup succeeded, I2P is enabled and its start_zone_p2p
\* returned an error, initialize_zones_p2p has returned (no panic): the result
\* holds the clearnet interface and None for I2P.
C1_OptionalFailureTolerated ==
    (Running("clearnet") /\ enable /\ outcome["i2p"].st = "err") =>
        /\ pc = "returned"
        /\ returned.some
        /\ returned.val.network_interfaces.clearnet_network_interface = ClearnetInterface
        /\ returned.val.network_interfaces.i2p_network_interface = None

C1_Witness ==
    /\ enable
    /\ Running("clearnet")
    /\ outcome["i2p"].st = "err"
    /\ pc = "returned"

\* C2: when clearnet's start_zone_p2p returned an error the call has failed
\* (panicked): no NetworkInterfaces value is ever returned.
C2_MandatoryFailureFatal ==
    outcome["clearnet"].st = "err" => (pc = "panicked" /\ returned = None)

C2_Witness ==
    /\ outcome["clearnet"].st = "err"
    /\ pc = "panicked"
    /\ enable

\* C3: I2P startup begins only after clearnet startup has completed with
\* success; the two are never in progress together, and wherever clearnet
\* startup has failed I2P startup has not been started (no channel, no attempt).
C3_ClearnetPrecedesI2p ==
    /\ outcome["i2p"].st # "notstarted" => Running("clearnet")
    /\ ~(outcome["clearnet"].st = "starting" /\ outcome["i2p"].st = "starting")
    /\ outcome["clearnet"].st = "err" =>
           (outcome["i2p"] = NotStarted /\ chan["i2p"] = NoChannel)

C3_Witness ==
    /\ enable
    /\ outcome["clearnet"].st = "err"
    /\ outcome["i2p"] = NotStarted

\* C4: the returned clearnet interface and clearnet resolver are determined by
\* the clearnet startup outcome alone: they are the interface clearnet's
\* initialize_network produced and the sender of clearnet's channel, whether
\* I2P is disabled, enabled and failed, or enabled and started.
C4_ClearnetIndependentOfI2p ==
    returned.some =>
        /\ returned.val.network_interfaces.clearnet_network_interface = ClearnetInterface
        /\ Len(returned.val.resolvers) >= 1
        /\ returned.val.resolvers[1] = "clearnet"
        /\ \A i \in DOMAIN returned.val.resolvers :
               returned.val.resolvers[i] = "clearnet" => i = 1

C4_Witness ==
    /\ returned.some
    /\ enable
    /\ Running("i2p")
    /\ outcome["clearnet"].id = NumIfaces

\* C5: once a zone's promise is resolved with v, every waiter of that zone
\* that has observed the promise's outcome observed Ok(v), whether it began
\* waiting before or after the resolution.
C5_AllWaitersSameValue ==
    \A z \in Zones, w \in Waiters :
        (chan[z].tx = "sent" /\ waiter[z][w].st \notin {"idle", "waiting"}) =>
            (waiter[z][w].st = "ok" /\ waiter[z][w].val = chan[z].value)

C5_Witness ==
    \E z \in Zones, w1, w2 \in Waiters :
        /\ Running(z)
        /\ chan[z].tx = "sent"
        /\ waiter[z][w1].st = "ok" /\ waiter[z][w1].early
        /\ waiter[z][w2].st = "ok" /\ ~waiter[z][w2].early

\* C7 as stated: for a Running zone no waiter ever observes an error, also
\* when the caller drops the resolver.
C7_NeverFails ==
    \A z \in Zones, w \in Waiters : Running(z) => waiter[z][w].st # "err"

\* C7 amended: for a Running zone a waiter observes an error only after the
\* resolver was dropped unresolved; while the resolver is held a suspended
\* waiter stays suspended; once the promise is resolved every suspended waiter
\* eventually proceeds with the value.
C7_SuspendUnlessDropped ==
    /\ [](\A z \in Zones, w \in Waiters :
            (Running(z) /\ chan[z].tx # "dropped") => waiter[z][w].st # "err")
    /\ [][\A z \in Zones, w \in Waiters :
            (Running(z) /\ waiter[z][w].st = "waiting" /\ chan[z].tx = "held")
                => waiter'[z][w].st = "waiting"]_vars
    /\ \A z \in Zones, w \in Waiters :
            (Running(z) /\ chan[z].tx = "sent" /\ waiter[z][w].st = "waiting")
                ~> (waiter[z][w].st = "ok")

C7_Witness ==
    \E z \in Zones, w1, w2 \in Waiters :
        /\ Running(z)
        /\ waiter[z][w1].st = "ok" /\ waiter[z][w1].early
        /\ waiter[z][w2].st = "waiting" /\ waiter[z][w2].early

\* C8: the returned resolver collection holds exactly one resolver per Running
\* zone and no other: clearnet's always, I2P's iff the I2P interface is Some,
\* which is iff I2P was enabled and its startup succeeded.
C8_OneResolverPerRunningZone ==
    returned.some =>
        LET r == returned.val
            i2p == r.network_interfaces.i2p_network_interface
        IN
        /\ r.resolvers = IF i2p.some THEN <<"clearnet", "i2p">> ELSE <<"clearnet">>
        /\ i2p.some <=> (enable /\ Running("i2p"))
        /\ \A z \in Zones : Running(z) <=> \E i \in DOMAIN r.resolvers : r.resolvers[i] = z

C8_Witness ==
    /\ returned.some
    /\ Len(returned.val.resolvers) = 2
    /\ returned.val.network_interfaces.i2p_network_interface.some

\* C9: a zone's waiters observe only their own zone's promise: an observed
\* value is the value resolved for that zone, an observed error means that
\* zone's resolver was dropped, and a step that resolves or drops one zone's
\* promise changes neither the other zone's promise nor its waiters.
C9_ZonesIndependent ==
    /\ [](\A z \in Zones, w \in Waiters :
            /\ waiter[z][w].st = "ok" =>
                   (chan[z].tx = "sent" /\ waiter[z][w].val = chan[z].value)
            /\ waiter[z][w].st = "err" => chan[z].tx = "dropped")
    /\ [][\A z \in Zones :
            (chan[z].created /\ chan'[z] # chan[z]) =>
                \A y \in Zones \ {z} :
                    (chan[y].created => chan'[y] = chan[y]) /\ waiter'[y] = waiter[y]]_vars

C9_Witness ==
    /\ chan["clearnet"].tx = "sent"
    /\ chan["i2p"].tx = "sent"
    /\ chan["clearnet"].value # chan["i2p"].value
    /\ \E w \in Waiters : waiter["clearnet"][w].st = "ok"
    /\ \E w \in Waiters : waiter["i2p"][w].st = "ok"

\* C10: every completed call of connect_to_peer and of
\* incoming_connection_listener is Ready with an explicit error: never
\* pending, never a Stream/Sink pair or a Listener.
C10_StubFailsFast ==
    /\ connect_call.some =>
           /\ connect_call.val.result.poll = "Ready"
           /\ ~connect_call.val.result.ok
           /\ connect_call.val.result.kind # "none"
           /\ connect_call.val.result.payload = "none"
    /\ listen_call.some =>
           /\ listen_call.val.result.poll = "Ready"
           /\ ~listen_call.val.result.ok
           /\ listen_call.val.result.kind # "none"
           /\ listen_call.val.result.payload = "none"

C10_Witness ==
    /\ connect_call.some
    /\ listen_call.some
    /\ listen_call.val.config.destination.some
    /\ connect_call.val.addr.port = 0

LastOp(op) == addr_call.some /\ addr_call.val.op = op

\* C12 (the claim): encoding a GarlicAddr as an epee object and handing the
\* written fields to its builder yields an address with the same destination
\* and port.
C12_WireRoundTrip ==
    (LastOp("decode") /\ addr_call.val.arg = write_fields(addr_call.val.before)) =>
        /\ addr_call.val.result.finish.ok
        /\ addr_call.val.result.finish.value = Some(addr_call.val.before)

\* C13: whatever fields are handed to the builder, every add_field call and
\* the finish call return a format error and no GarlicAddr value.
C13_DecoderFailsClosed ==
    LastOp("decode") =>
        LET r == addr_call.val.result IN
        /\ \A i \in DOMAIN r.adds :
               ~r.adds[i].ok /\ r.adds[i].err = "Format" /\ r.adds[i].value = None
        /\ ~r.finish.ok /\ r.finish.err = "Format" /\ r.finish.value = None

C13_Witness ==
    /\ LastOp("decode")
    /\ addr_call.val.arg = write_fields(addr_call.val.before)
    /\ Len(addr_call.val.result.adds) = 2

\* C14: encoding writes exactly two fields, first "destination" with the 32
\* destination bytes, then "port" with the 16-bit port, and number_of_fields
\* is the number of fields written.
C14_EncodeTwoFieldsInOrder ==
    LastOp("encode") =>
        LET a == addr_call.val.before
            f == addr_call.val.result.fields
        IN
        /\ Len(f) = 2
        /\ f[1].name = "destination" /\ f[1].ty = "bytes"
        /\ Len(f[1].value.bytes) = 32 /\ f[1].value.bytes = a.destination
        /\ f[2].name = "port" /\ f[2].ty = "u16"
        /\ f[2].value.num = a.port /\ f[2].value.num \in 0..65535
        /\ addr_call.val.result.n = Len(f)

C14_Witness ==
    /\ LastOp("encode")
    /\ addr_call.val.before.port = 65535
    /\ addr_call.val.before.destination = Dest(1)

VariantOf(z) == IF z = "clearnet" THEN "ClearNet" ELSE IF z = "tor" THEN "Tor" ELSE "I2p"

\* C15: wrapping always yields the variant of the id's zone, and two wrapped
\* ids are equal iff they are of the same zone and equal as typed ids.
C15_WrapInjective ==
    LastOp("wrap") =>
        LET x == addr_call.val.arg
            u == addr_call.val.result
        IN
        /\ \A i \in 1..2 : u[i].variant = VariantOf(x[i].zone)
        /\ (u[1] = u[2]) <=> (x[1].zone = x[2].zone /\ x[1].id = x[2].id)

C15_Witness ==
    /\ LastOp("wrap")
    /\ addr_call.val.arg[1].zone = "tor"
    /\ addr_call.val.arg[2].zone = "clearnet"
    /\ addr_call.val.arg[1].id = addr_call.val.arg[2].id

\* C16: after set_port(a, p) the port is p and the destination, and so the
\* ban id, is what it was before the call; this holds at every call of a
\* sequence.
C16_SetPortFrame ==
    LastOp("set_port") =>
        /\ port(garlic_addr) = addr_call.val.arg
        /\ destination(garlic_addr) = destination(addr_call.val.before)
        /\ ban_id(garlic_addr) = ban_id(addr_call.val.before)

C16_Witness ==
    /\ LastOp("set_port")
    /\ addr_call.val.before.port # addr_call.val.arg
    /\ addr_call.val.before.port # 0
    /\ destination(garlic_addr) = Dest(3)

\* C17: ban_id(a) is a.destination(), and it is the same for every address
\* with that destination, whatever the port.
C17_BanIdIsDestination ==
    LastOp("ban_id") =>
        /\ addr_call.val.result = addr_call.val.before.destination
        /\ \A p \in Ports :
               ban_id(GarlicAddr_new(addr_call.val.before.destination, p))
                   = addr_call.val.result

C17_Witness ==
    /\ LastOp("ban_id")
    /\ addr_call.val.before.port = 18080
    /\ addr_call.val.result = Dest(2)

\* C18: make_canonical changes neither the destination nor the port, and
\* applying it again changes nothing.
C18_CanonicalNoOp ==
    LastOp("make_canonical") =>
        /\ garlic_addr = addr_call.val.before
        /\ make_canonical(garlic_addr) = garlic_addr

C18_Witness ==
    /\ LastOp("make_canonical")
    /\ garlic_addr.port = 65535
    /\ garlic_addr.destination = Dest(0)

\* C11 (the claim): parsing the string Display produces for an address
\* succeeds and yields an address with the same ban_id.
C11_DisplayParseRoundTrip ==
    LastOp("display_parse") =>
        /\ addr_call.val.result.ok
        /\ ban_id(addr_call.val.result.value.val) = ban_id(addr_call.val.before)

HasColon(str) == \E i \in DOMAIN str : str[i] = Colon
LastColon(str) == CHOOSE i \in DOMAIN str : str[i] = Colon /\ \A j \in (i + 1)..Len(str) : str[j] # Colon
DestText(str) == SubSeq(str, 1, LastColon(str) - 1)
PortText(str) == SubSeq(str, LastColon(str) + 1, Len(str))

\* C19 (the claim): the first 8 bytes of the parsed destination are the
\* little-endian bytes of the hasher's value after <dest> was fed into it, and
\* the other 24 bytes are zero.
C19_DestinationIsHashOfText ==
    (LastOp("from_str") /\ addr_call.val.result.ok) =>
        LET d == destination(addr_call.val.result.value.val)
            h == Hasher_finish_le(str_hash(DestText(addr_call.val.arg), DefaultHasher_new))
        IN /\ \A i \in 1..8 : d[i] = h[i]
           /\ \A i \in 9..32 : d[i] = 0

IsDigit(c) == c >= Zero /\ c <= Zero + 9
RECURSIVE StripZeros(_)
StripZeros(t) == IF Len(t) > 0 /\ t[1] = Zero THEN StripZeros(Tail(t)) ELSE t
\* t, all digits, denotes a value of at most 65535
DigitsInU16(t) ==
    LET z == StripZeros(t)
        m == Decimal(65535)
    IN \/ Len(z) < Len(m)
       \/ /\ Len(z) = Len(m)
          /\ \A i \in 1..Len(z) : (\A j \in 1..(i - 1) : z[j] = m[j]) => z[i] <= m[i]
\* a non-empty string of decimal digits with a value in 0..=65535
IsDecimalU16(t) == Len(t) > 0 /\ (\A i \in DOMAIN t : IsDigit(t[i])) /\ DigitsInU16(t)
\* the same, optionally preceded by one '+'
IsSignedDecimalU16(t) == IsDecimalU16(IF Len(t) > 0 /\ t[1] = Plus THEN Tail(t) ELSE t)
\* the digits of t without sign and leading zeros
CanonicalDigits(t) ==
    LET z == StripZeros(IF Len(t) > 0 /\ t[1] = Plus THEN Tail(t) ELSE t)
    IN IF Len(z) = 0 THEN <<Zero>> ELSE z

Rejected(r) == ~r.ok /\ r.kind = "InvalidInput" /\ r.value = None
AcceptedWithPort(r, t) == r.ok /\ r.value.some /\ Decimal(port(r.value.val)) = CanonicalDigits(t)

\* C20 as stated, reading "a decimal value" as a string of decimal digits:
\* InvalidInput when there is no ':' or the text after the last ':' is not a
\* string of digits with a value in 0..=65535; otherwise an address with that port.
C20_InvalidInputUnlessDigits ==
    LastOp("from_str") =>
        LET str == addr_call.val.arg
            r == addr_call.val.result
        IN IF HasColon(str) /\ IsDecimalU16(PortText(str))
           THEN AcceptedWithPort(r, PortText(str))
           ELSE Rejected(r)

\* C20 amended: the text after the last ':' is accepted iff it is a non-empty
\* string of decimal digits, optionally preceded by one '+', with a value in
\* 0..=65535; every other input gets InvalidInput and no address.
C20_InvalidInputUnlessSignedDigits ==
    LastOp("from_str") =>
        LET str == addr_call.val.arg
            r == addr_call.val.result
        IN IF HasColon(str) /\ IsSignedDecimalU16(PortText(str))
           THEN AcceptedWithPort(r, PortText(str))
           ELSE Rejected(r)

C20_Witness ==
    /\ LastOp("from_str")
    /\ addr_call.val.arg = <<120, Colon, 120, Colon, Zero + 7>>
    /\ addr_call.val.result.ok
    /\ port(addr_call.val.result.value.val) = 7

====
